---- MODULE Spec2Model ----
(***************************************************************************)
(* A model of ister.py, the template-driven OS installer.                  *)
(*                                                                         *)
(* Python strings that the code concatenates, slices, searches or sorts    *)
(* are sequences of one-character strings, so that disk + str(partition),  *)
(* line.find(...), line.split(" ") and sorted(..., key=...) are computed   *)
(* the way the interpreter computes them.  A missing or falsy value        *)
(* (None, "", 0, []) is the empty sequence, or 0 for a number: the code    *)
(* only ever tests such values with "not x" or ".get(x)".                  *)
(***************************************************************************)
EXTENDS Integers, Sequences, FiniteSets, TLC

VARIABLES
    given,      \* the template as get_template returned it
    template,   \* the template dictionary install_os works on
    pc,         \* the position of the run
    result,     \* what the function under study returned or raised
    cmds,       \* the commands handed to run_command so far, in order
    stages,     \* the stages entered so far, in order
    blkid,      \* the lines blkid prints
    uuids,      \* the list get_uuids returned
    fstab,      \* the lines written to <target>/etc/fstab
    devs,       \* the device paths that exist
    mounts,     \* the lines mount prints
    exit_code,  \* the exit status of the process (NoExit while it runs)
    chrooted    \* whether the root of the process is the target tree

vars == <<given, template, pc, result, cmds, stages, blkid, uuids, fstab, devs, mounts, exit_code, chrooted>>

(***************************************************************************)
(* Bounds of the model.                                                    *)
(***************************************************************************)
MaxParts == 2
MaxFs == 1
MaxMounts == 1

(***************************************************************************)
(* Python's string operations.                                             *)
(***************************************************************************)
DigitChars == <<"0", "1", "2", "3", "4", "5", "6", "7", "8", "9">>

\* str(n) for an integer n >= 0
RECURSIVE Str(_)
Str(n) == IF n < 10 THEN <<DigitChars[n + 1]>>
          ELSE Str(n \div 10) \o <<DigitChars[(n % 10) + 1]>>

\* s.find(pat) == 0
StartsWith(s, pat) == Len(s) >= Len(pat) /\ SubSeq(s, 1, Len(pat)) = pat

\* s.find(pat): the 0-based index of the first occurrence, or -1
Find(s, pat) ==
    LET hits == {i \in 0..(Len(s) - Len(pat)) : SubSeq(s, i + 1, i + Len(pat)) = pat}
    IN  IF hits = {} THEN -1 ELSE CHOOSE i \in hits : \A j \in hits : i <= j

\* s.split(sep) for a one-character separator
RECURSIVE Split(_, _)
Split(s, sep) ==
    LET i == Find(s, <<sep>>)
    IN  IF i = -1 THEN <<s>>
        ELSE <<SubSeq(s, 1, i)>> \o Split(SubSeq(s, i + 2, Len(s)), sep)

\* s[-1] of a non-empty string, and s[:-1]
LastChar(s) == s[Len(s)]
ButLast(s) == SubSeq(s, 1, Len(s) - 1)

\* the code point of a character the model sorts by
Ord(c) ==
    CASE c = "/" -> 47
      [] c = "0" -> 48 [] c = "1" -> 49 [] c = "2" -> 50 [] c = "3" -> 51
      [] c = "4" -> 52 [] c = "5" -> 53 [] c = "6" -> 54 [] c = "7" -> 55
      [] c = "8" -> 56 [] c = "9" -> 57
      [] c = "a" -> 97 [] c = "b" -> 98 [] c = "d" -> 100 [] c = "n" -> 110
      [] c = "o" -> 111 [] c = "s" -> 115 [] c = "t" -> 116

\* a < b for two strings, as Python compares them
RECURSIVE StrLess(_, _)
StrLess(a, b) ==
    IF b = <<>> THEN FALSE
    ELSE IF a = <<>> THEN TRUE
    ELSE IF a[1] = b[1] THEN StrLess(Tail(a), Tail(b))
    ELSE Ord(a[1]) < Ord(b[1])

\* whether int(s) succeeds on a string of the model, and its value
IsInt(s) == s # <<>> /\ \A i \in 1..Len(s) : \E d \in 1..10 : DigitChars[d] = s[i]
DigitVal(c) == (CHOOSE d \in 1..10 : DigitChars[d] = c) - 1
RECURSIVE IntOf(_)
IntOf(s) == IF Len(s) = 1 THEN DigitVal(s[1])
            ELSE IntOf(ButLast(s)) * 10 + DigitVal(LastChar(s))

(***************************************************************************)
(* Dictionaries: functions whose domain is the set of keys.                *)
(***************************************************************************)
EmptyDict == [k \in {} |-> k]
DictSet(d, key, val) == [k \in (DOMAIN d) \cup {key} |-> IF k = key THEN val ELSE d[k]]
DictHas(d, key) == key \in DOMAIN d

(***************************************************************************)
(* The strings of the templates.                                           *)
(***************************************************************************)
sda == <<"s", "d", "a">>
sdb == <<"s", "d", "b">>
sda1 == <<"s", "d", "a", "1">>
REST == <<"r", "e", "s", "t">>
EFI == <<"E", "F", "I">>
LINUX == <<"l", "i", "n", "u", "x">>
SWAP == <<"s", "w", "a", "p">>
EXT4 == <<"e", "x", "t", "4">>
VFAT == <<"v", "f", "a", "t">>
ROOT == <<"/">>
BOOT == <<"/", "b", "o", "o", "t">>
None == <<>>

\* the key the code uses for a partition: disk + str(partition)
DiskPart(disk, part) == disk \o Str(part)

(***************************************************************************)
(* validate_disk_template                                                  *)
(***************************************************************************)
accepted_ptypes == {EFI, LINUX, SWAP}
accepted_sizes == {"M", "G", "T"}
accepted_fstypes == {<<"e", "x", "t", "2">>, <<"e", "x", "t", "3">>, EXT4, VFAT,
                     <<"b", "t", "r", "f", "s">>, <<"x", "f", "s">>, SWAP}

\* lines 484-487: the partition is recorded only under a disk that
\* pl_disk_to_parts already holds, and nothing ever enters a disk there
RecordPart(parts, disk, part) ==
    IF DictHas(parts, disk) /\ parts[disk] # <<>>
    THEN IF \E i \in 1..Len(parts[disk]) : parts[disk][i] = part
         THEN [err |-> "Duplicate disk and partition entry in PartitionLayout", parts |-> parts]
         ELSE [err |-> "", parts |-> DictSet(parts, disk, Append(parts[disk], part))]
    ELSE [err |-> "", parts |-> parts]

\* line 490 left out: a layout without an EFI partition passes
EfiMissingNever(has_efi) == FALSE

\* line 490
EfiMissing(has_efi) == ~has_efi

\* one pass of the loop over PartitionLayout (lines 462-488); st holds
\* has_efi, pl_disk_part_to_size (sizes) and pl_disk_to_parts (parts)
CheckLayout(layout, st) ==
    IF layout.disk = None \/ layout.partition = 0 \/ layout.size = None \/ layout.type = None
    THEN [st EXCEPT !.err = "Invalid PartitonLayout section"]
    ELSE IF LastChar(layout.size) \notin accepted_sizes /\ layout.size # REST
    THEN [st EXCEPT !.err = "IndexError"]
    ELSE IF layout.type \notin accepted_ptypes
    THEN [st EXCEPT !.err = "UnboundLocalError"]
    ELSE IF layout.type = EFI /\ st.has_efi
    THEN [st EXCEPT !.err = "Multiple EFI partitions defined"]
    ELSE LET rec == RecordPart(st.parts, layout.disk, layout.partition)
         IN  IF rec.err # ""
             THEN [st EXCEPT !.err = rec.err]
             ELSE [err |-> "",
                   has_efi |-> (st.has_efi \/ layout.type = EFI),
                   parts |-> rec.parts,
                   sizes |-> DictSet(st.sizes, DiskPart(layout.disk, layout.partition),
                                     layout.size)]

RECURSIVE LayoutLoop(_, _, _)
LayoutLoop(pl, i, st) ==
    IF i > Len(pl) \/ st.err # "" THEN st
    ELSE LayoutLoop(pl, i + 1, CheckLayout(pl[i], st))

\* lines 493-497: for each disk of pl_disk_to_parts, a partition of size
\* "rest" must be the last of the sorted list; d + p adds a string and a number
RestCheck(parts, sizes) ==
    IF \E d \in DOMAIN parts : parts[d] # <<>> THEN "TypeError" ELSE ""

\* one pass of the loop over FilesystemTypes (lines 499-515); "not type"
\* tests the builtin and is never true
CheckFstype(fs, st) ==
    IF fs.disk = None \/ fs.partition = 0
    THEN [st EXCEPT !.err = "Invalid FilesystemTypes section"]
    ELSE IF fs.type \notin accepted_fstypes
    THEN [st EXCEPT !.err = "Invalid filesystem type"]
    ELSE LET disk_part == DiskPart(fs.disk, fs.partition)
         IN  IF DictHas(st.ft, disk_part)
             THEN [st EXCEPT !.err = "Duplicate disk and partition entry in FilesystemTypes"]
             ELSE IF ~DictHas(st.sizes, disk_part)
             THEN [st EXCEPT !.err = "used in FilesystemTypes not found in PartitionLayout"]
             ELSE [st EXCEPT !.ft = DictSet(st.ft, disk_part, disk_part)]

RECURSIVE FstypeLoop(_, _, _)
FstypeLoop(ft, i, st) ==
    IF i > Len(ft) \/ st.err # "" THEN st
    ELSE FstypeLoop(ft, i + 1, CheckFstype(ft[i], st))

\* one pass of the loop over PartitionMountPoints (lines 517-530)
CheckMount(pmount, st) ==
    IF pmount.disk = None \/ pmount.partition = 0 \/ pmount.mount = None
    THEN [st EXCEPT !.err = "Invalid PartitionMountPoints section"]
    ELSE LET disk_part == DiskPart(pmount.disk, pmount.partition)
         IN  IF DictHas(st.pm, disk_part)
             THEN [st EXCEPT !.err = "Duplicate disk and partition entry in PartitionMountPoints"]
             ELSE IF ~DictHas(st.ft, disk_part)
             THEN [st EXCEPT !.err = "used in PartitionMountPoints not found in FilesystemTypes"]
             ELSE [st EXCEPT !.pm = DictSet(st.pm, disk_part, disk_part)]

RECURSIVE MountLoop(_, _, _)
MountLoop(pm, i, st) ==
    IF i > Len(pm) \/ st.err # "" THEN st
    ELSE MountLoop(pm, i + 1, CheckMount(pm[i], st))

\* validate_disk_template(template): "ok", or the exception it raises
validate_disk_template(t) ==
    LET pl == t.PartitionLayout
        ft == t.FilesystemTypes
        pm == t.PartitionMountPoints
    IN  IF pl = <<>> THEN "Invalid template, missing PartitionLayout"
        ELSE IF ft = <<>> THEN "Invalid template, missing FilesystemTypes"
        ELSE IF pm = <<>> THEN "Invalid template, missing PartitionMountPoints"
        ELSE
        LET s1 == LayoutLoop(pl, 1, [err |-> "", has_efi |-> FALSE,
                                     parts |-> EmptyDict, sizes |-> EmptyDict])
        IN  IF s1.err # "" THEN s1.err
            ELSE IF EfiMissing(s1.has_efi) THEN "No EFI partition defined"
            ELSE IF RestCheck(s1.parts, s1.sizes) # "" THEN RestCheck(s1.parts, s1.sizes)
            ELSE
            LET s2 == FstypeLoop(ft, 1, [err |-> "", sizes |-> s1.sizes, ft |-> EmptyDict])
            IN  IF s2.err # "" THEN s2.err
                ELSE
                LET s3 == MountLoop(pm, 1, [err |-> "", ft |-> s2.ft, pm |-> EmptyDict])
                IN  IF s3.err # "" THEN s3.err ELSE "ok"

(***************************************************************************)
(* select_disk, find_target_disk, insert_fs_defaults                       *)
(***************************************************************************)
DEV == <<"/", "d", "e", "v", "/">>
DEV_SDA == DEV \o sda
DEV_SD == <<"/", "d", "e", "v", "/", "s", "d">>
DEV_NBD0 == <<"/", "d", "e", "v", "/", "n", "b", "d", "0">>
ON_ROOT == <<"o", "n", " ", "/", " ">>
UUID_EQ == <<"U", "U", "I", "D", "=">>
UUID_ATTR == UUID_EQ \o <<"\"">>
\* the UUID of the installer image, line 53
INSTALLER_UUID == <<"5", "3", "E", "0", "-", "A", "0", "A", "B">>
install_uuid == UUID_ATTR \o INSTALLER_UUID \o <<"\"">>

select_disk(install_disk) == IF StartsWith(install_disk, DEV_SDA) THEN sdb ELSE sda

BlkidHit(line) == StartsWith(line, install_uuid)
MountHit(line) == StartsWith(line, DEV_SD) /\ Find(line, ON_ROOT) # -1

\* the index of the first member of a set of line numbers, or 0
FirstOf(hits) == IF hits = {} THEN 0 ELSE CHOOSE i \in hits : \A j \in hits : i <= j

\* the first line each of the two loops returns on (lines 68-70, 76-79), or 0
FirstBlkidHit(lines) == FirstOf({i \in 1..Len(lines) : BlkidHit(lines[i])})
FirstMountHit(lines) == FirstOf({i \in 1..Len(lines) : MountHit(lines[i])})

\* find_target_disk(): the disk it returns and the rule that decided (by),
\* or the exception it raises; exists is the set of paths os.path.exists
\* finds, blk and mnt are what blkid and mount print (ok FALSE: the call failed)
find_target_disk(exists, blk, mnt) ==
    IF DEV \o sda \o <<"2">> \notin exists
    THEN [err |-> "", disk |-> sda, by |-> "sda2"]
    ELSE IF DEV \o sdb \notin exists
    THEN [err |-> "No target disk available", disk |-> None, by |-> ""]
    ELSE IF DEV \o sdb \o <<"2">> \notin exists
    THEN [err |-> "", disk |-> sdb, by |-> "sdb2"]
    ELSE IF ~blk.ok
    THEN [err |-> "Call to blkid failed", disk |-> None, by |-> ""]
    ELSE IF FirstBlkidHit(blk.lines) # 0
    THEN [err |-> "", disk |-> select_disk(blk.lines[FirstBlkidHit(blk.lines)]),
          by |-> "blkid"]
    ELSE IF ~mnt.ok
    THEN [err |-> "Call to mount failed", disk |-> None, by |-> ""]
    ELSE IF FirstMountHit(mnt.lines) # 0
    THEN [err |-> "", disk |-> select_disk(mnt.lines[FirstMountHit(mnt.lines)]),
          by |-> "mount"]
    ELSE [err |-> "Could not distinguish install disk", disk |-> None, by |-> ""]

SIZE_512M == <<"5", "1", "2", "M">>

\* insert_fs_defaults(template) once find_target_disk returned dev
insert_fs_defaults(t, dev) ==
    [t EXCEPT
       !.PartitionLayout =
           <<[disk |-> dev, partition |-> 1, size |-> SIZE_512M, type |-> EFI],
             [disk |-> dev, partition |-> 2, size |-> REST, type |-> LINUX]>>,
       !.FilesystemTypes =
           <<[disk |-> dev, partition |-> 1, type |-> VFAT, options |-> None],
             [disk |-> dev, partition |-> 2, type |-> EXT4, options |-> None]>>,
       !.PartitionMountPoints =
           <<[disk |-> dev, partition |-> 1, mount |-> BOOT, options |-> None],
             [disk |-> dev, partition |-> 2, mount |-> ROOT, options |-> None]>>]

(***************************************************************************)
(* run_command and create_partitions                                       *)
(***************************************************************************)
\* the commands that reach subprocess.call when the first k of a function's
\* commands exit 0 and the next one does not: run_command raises at the
\* first that fails (line 106), k = Len(commands) when none does
Issued(commands, k) ==
    IF k < Len(commands) THEN SubSeq(commands, 1, k + 1) ELSE commands

\* the orders in which "for disk in disks" may visit a set (line 119)
Orders(S) ==
    {f \in [1..Cardinality(S) -> S] : \A i, j \in 1..Cardinality(S) : f[i] = f[j] => i = j}

\* line 112
MULT_M == 1
MULT_G == 1024
MULT_T == 1024 * 1024
match == [M |-> MULT_M, G |-> MULT_G, T |-> MULT_T]

\* the sort key of line 122
SortKey(v) == v.disk \o Str(v.partition)

\* whether a goes before b under the key of line 122
KeyLess(a, b) == StrLess(SortKey(a), SortKey(b))

\* sorted(list, key=...): a stable sort, equal keys keep their order
RECURSIVE Insert(_, _)
Insert(sorted, v) ==
    IF sorted = <<>> THEN <<v>>
    ELSE IF KeyLess(v, sorted[Len(sorted)])
         THEN Append(Insert(ButLast(sorted), v), sorted[Len(sorted)])
         ELSE Append(sorted, v)

RECURSIVE SortedByKey(_)
SortedByKey(list) ==
    IF list = <<>> THEN <<>>
    ELSE Insert(SortedByKey(ButLast(list)), list[Len(list)])

\* lines 130-135
PartedType(type) ==
    IF type = EFI THEN "fat32" ELSE IF type = SWAP THEN "linux-swap" ELSE "ext2"

\* the start offset of a partition (lines 123-124)
StartOf(part, cdisk, start) == IF part.disk # cdisk THEN 0 ELSE start

\* one pass of the loop of lines 122-143; st holds start, cdisk, the
\* commands so far and the exception raised.  A mkpart command carries the
\* layout entry it is issued for.
PlanPart(part, st) ==
    LET start == StartOf(part, st.cdisk, st.start)
    IN  IF part.size # REST /\ LastChar(part.size) \notin DOMAIN match
        THEN [st EXCEPT !.err = "KeyError"]
        ELSE IF part.size # REST /\ ~IsInt(ButLast(part.size))
        THEN [st EXCEPT !.err = "ValueError"]
        ELSE
        LET end == IF part.size = REST THEN -1
                   ELSE IntOf(ButLast(part.size)) * match[LastChar(part.size)] + start
            mkpart == [op |-> "mkpart", disk |-> part.disk, ptype |-> PartedType(part.type),
                       start |-> start, end |-> end, entry |-> part]
            boot == [op |-> "set boot on", disk |-> part.disk, partition |-> part.partition]
        IN  [err |-> "", start |-> end, cdisk |-> part.disk,
             cmds |-> st.cmds \o <<mkpart>> \o (IF part.type = EFI THEN <<boot>> ELSE <<>>)]

RECURSIVE PlanLoop(_, _, _)
PlanLoop(parts, i, st) ==
    IF i > Len(parts) \/ st.err # "" THEN st
    ELSE PlanLoop(parts, i + 1, PlanPart(parts[i], st))

\* create_partitions(template) when every command exits 0: the commands it
\* runs, in order, and the exception it raises on the way, if any; order is
\* the order in which the set of disks is visited
create_partitions(t, order) ==
    LET labels == [i \in 1..Len(order) |-> [op |-> "mklabel", disk |-> order[i]]]
        plan == PlanLoop(SortedByKey(t.PartitionLayout), 1,
                         [err |-> "", start |-> 0, cdisk |-> None, cmds |-> labels])
    IN  [cmds |-> plan.cmds, err |-> plan.err]

DisksOf(pl) == {pl[i].disk : i \in 1..Len(pl)}

(***************************************************************************)
(* get_uuids and update_fstab                                              *)
(***************************************************************************)
NONE_MOUNT == <<"n", "o", "n", "e">>

\* os.path.basename(path): what follows the last "/"
Basename(path) ==
    LET slashes == {i \in 1..Len(path) : path[i] = "/"}
    IN  IF slashes = {} THEN path
        ELSE SubSeq(path, (CHOOSE i \in slashes : \A j \in slashes : j <= i) + 1, Len(path))

\* lines 212-216: part_layout[disk_part] = part.copy(), mount "none" for swap
RECURSIVE LayoutDict(_, _, _)
LayoutDict(pl, i, d) ==
    IF i > Len(pl) THEN d
    ELSE LayoutDict(pl, i + 1,
            DictSet(d, DiskPart(pl[i].disk, pl[i].partition),
                    [disk |-> pl[i].disk, partition |-> pl[i].partition,
                     size |-> pl[i].size, type |-> pl[i].type,
                     mount |-> IF pl[i].type = SWAP THEN NONE_MOUNT ELSE None,
                     options |-> None, uuid |-> None]))

\* lines 218-220; st holds part_layout (d) and the exception raised
RECURSIVE FsTypeDict(_, _, _)
FsTypeDict(ft, i, st) ==
    IF i > Len(ft) \/ st.err # "" THEN st
    ELSE LET disk_part == DiskPart(ft[i].disk, ft[i].partition)
         IN  IF ~DictHas(st.d, disk_part) THEN [st EXCEPT !.err = "KeyError"]
             ELSE FsTypeDict(ft, i + 1,
                     [st EXCEPT !.d = DictSet(st.d, disk_part,
                                         [st.d[disk_part] EXCEPT !.type = ft[i].type])])

\* lines 222-227; st also holds used_disk_part (used)
RECURSIVE MountDict(_, _, _)
MountDict(pm, i, st) ==
    IF i > Len(pm) \/ st.err # "" THEN st
    ELSE LET disk_part == DiskPart(pm[i].disk, pm[i].partition)
         IN  IF ~DictHas(st.d, disk_part) THEN [st EXCEPT !.err = "KeyError"]
             ELSE MountDict(pm, i + 1,
                     [st EXCEPT
                        !.used = Append(st.used, disk_part),
                        !.d = DictSet(st.d, disk_part,
                                 [st.d[disk_part] EXCEPT
                                    !.mount = pm[i].mount,
                                    !.options = IF pm[i].options # None
                                                THEN pm[i].options ELSE @])])

\* lines 248-250: the value of the last word that starts with UUID=",
\* or "" when no word does
RECURSIVE UuidOf(_, _, _)
UuidOf(pline, i, uuid) ==
    IF i > Len(pline) THEN uuid
    ELSE UuidOf(pline, i + 1,
            IF StartsWith(pline[i], UUID_ATTR) THEN Split(pline[i], "\"")[2] ELSE uuid)

\* one pass of the loop over the lines of blkid (lines 233-254); st holds
\* part_layout (d), used_disk_part (used), the keys appended to uuids
\* (found) and the exception raised
ScanLine(line, st) ==
    LET pline == Split(line, " ")
        dev == ButLast(pline[1])
        disk_part == Basename(dev)
        uuid == UuidOf(pline, 1, <<>>)
    IN  IF StartsWith(dev, DEV_NBD0) THEN st
        ELSE IF ~DictHas(st.d, disk_part) THEN st
        ELSE IF \A i \in 1..Len(st.used) : st.used[i] # disk_part THEN st
        ELSE IF uuid = <<>> THEN [st EXCEPT !.err = "Partition uuid not found"]
        ELSE [st EXCEPT
                !.d = DictSet(st.d, disk_part, [st.d[disk_part] EXCEPT !.uuid = uuid]),
                !.found = Append(st.found, disk_part)]

RECURSIVE ScanLoop(_, _, _)
ScanLoop(lines, i, st) ==
    IF i > Len(lines) \/ st.err # "" THEN st
    ELSE ScanLoop(lines, i + 1, ScanLine(lines[i], st))

\* get_uuids(template): the list it returns, or the exception it raises.
\* The list holds the dictionaries of part_layout themselves, so an entry
\* appended twice shows the values written last.
get_uuids(t, blk) ==
    LET s1 == FsTypeDict(t.FilesystemTypes, 1,
                 [err |-> "", d |-> LayoutDict(t.PartitionLayout, 1, EmptyDict)])
        s2 == MountDict(t.PartitionMountPoints, 1,
                 [err |-> s1.err, d |-> s1.d, used |-> <<>>])
        s3 == ScanLoop(blk.lines, 1,
                 [err |-> "", d |-> s2.d, used |-> s2.used, found |-> <<>>])
    IN  IF s2.err # "" THEN [err |-> s2.err, uuids |-> <<>>]
        ELSE IF ~blk.ok THEN [err |-> "Call to blkid failed", uuids |-> <<>>]
        ELSE IF s3.err # "" THEN [err |-> s3.err, uuids |-> <<>>]
        ELSE [err |-> "", uuids |-> [i \in 1..Len(s3.found) |-> s3.d[s3.found[i]]]]

\* line 282
default_options == <<"r", "w", ",", "r", "e", "l", "a", "t", "i", "m", "e", " ", "0", " ", "0">>

\* lines 290-294: the line written for one entry of uuids
FstabLine(part) ==
    UUID_EQ \o part.uuid \o <<"\t">> \o part.mount \o <<"\t">> \o part.type \o <<"\t">>
       \o (IF part.options # None THEN part.options ELSE default_options) \o <<"\n">>

\* update_fstab(uuids, target_dir): the lines of the file it writes
update_fstab(list) == [i \in 1..Len(list) |-> FstabLine(list[i])]

(***************************************************************************)
(* validate_user_template and validate_template                            *)
(***************************************************************************)
PASSWORD == <<"p", "a", "s", "s", "w", "o", "r", "d">>

\* one pass of the loop of lines 543-568; st holds unames, uids and the
\* exception raised; fetch_ok tells whether urlopen returns.  The uids of
\* the model are far below max_uid (2^32 - 1).
CheckUser(user, st, fetch_ok) ==
    IF user.username = None THEN [st EXCEPT !.err = "Missing username for user entry"]
    ELSE IF user.username \in st.unames THEN [st EXCEPT !.err = "Duplicate username"]
    ELSE IF user.uid # 0 /\ user.uid \in st.uids THEN [st EXCEPT !.err = "Duplicate UID"]
    ELSE IF user.uid # 0 /\ user.uid < 1 THEN [st EXCEPT !.err = "Invalid UID"]
    ELSE IF user.key # None /\ ~fetch_ok THEN [st EXCEPT !.err = "URLError"]
    ELSE IF user.sudo # None /\ user.sudo # PASSWORD
    THEN [st EXCEPT !.err = "Invalid sudo option"]
    ELSE [err |-> "", unames |-> st.unames \cup {user.username},
          uids |-> IF user.uid # 0 THEN st.uids \cup {user.uid} ELSE st.uids]

RECURSIVE UserLoop(_, _, _, _)
UserLoop(users, i, st, fetch_ok) ==
    IF i > Len(users) \/ st.err # "" THEN st
    ELSE UserLoop(users, i + 1, CheckUser(users[i], st, fetch_ok), fetch_ok)

\* validate_user_template(users): "" or the exception it raises
validate_user_template(users, fetch_ok) ==
    UserLoop(users, 1, [err |-> "", unames |-> {}, uids |-> {}], fetch_ok).err

\* lines 580-585: whether the template says anything about the disks
DiskInfo(t) ==
    t.ParitionLayout # None \/ t.FilesystemTypes # <<>> \/ t.PartitionMountPoints # <<>>

\* validate_template(template): the exception it raises ("" when it
\* returns) and the template as it leaves it; found is what
\* find_target_disk returns when it is called
validate_template(t, found, fetch_ok) ==
    IF t.ImageSourceType = None
    THEN [err |-> "Missing ImageSourceType field", template |-> t]
    ELSE IF t.ImageSourceLocation = None
    THEN [err |-> "Missing ImageSourceLocation field", template |-> t]
    ELSE IF DiskInfo(t) /\ validate_disk_template(t) # "ok"
    THEN [err |-> validate_disk_template(t), template |-> t]
    ELSE IF ~DiskInfo(t) /\ found.err # ""
    THEN [err |-> found.err, template |-> t]
    ELSE LET t2 == IF DiskInfo(t) THEN t ELSE insert_fs_defaults(t, found.disk)
         IN  [err |-> IF t2.Users # <<>> THEN validate_user_template(t2.Users, fetch_ok)
                      ELSE "",
              template |-> t2]

(***************************************************************************)
(* create_filesystems, setup_mounts, copy_files, update_loader, add_users, *)
(* cleanup                                                                 *)
(***************************************************************************)
\* line 148-149
fs_util ==
    {<<"e", "x", "t", "2">>, <<"e", "x", "t", "3">>, EXT4, <<"b", "t", "r", "f", "s">>,
     VFAT, SWAP}

\* create_filesystems(template) when every command exits 0
RECURSIVE create_filesystems(_, _)
create_filesystems(ft, i) ==
    IF i > Len(ft) THEN [cmds |-> <<>>, err |-> ""]
    ELSE IF ft[i].type \notin fs_util THEN [cmds |-> <<>>, err |-> "KeyError"]
    ELSE LET rest == create_filesystems(ft, i + 1)
         IN  [cmds |-> <<[op |-> "mkfs", type |-> ft[i].type, options |-> ft[i].options,
                          dev |-> DEV \o ft[i].disk \o Str(ft[i].partition)]>> \o rest.cmds,
              err |-> rest.err]

\* sorted(template["PartitionMountPoints"], key=lambda v: v["mount"]), line 183
RECURSIVE InsertByMount(_, _)
InsertByMount(sorted, v) ==
    IF sorted = <<>> THEN <<v>>
    ELSE IF StrLess(v.mount, sorted[Len(sorted)].mount)
         THEN Append(InsertByMount(ButLast(sorted), v), sorted[Len(sorted)])
         ELSE Append(sorted, v)

RECURSIVE SortedByMount(_)
SortedByMount(list) ==
    IF list = <<>> THEN <<>>
    ELSE InsertByMount(SortedByMount(ButLast(list)), list[Len(list)])

\* lines 183-186: the commands that mount the target
RECURSIVE TargetMounts(_, _)
TargetMounts(parts, i) ==
    IF i > Len(parts) THEN <<>>
    ELSE (IF parts[i].mount # ROOT
          THEN <<[op |-> "mkdir", dir |-> "target", path |-> parts[i].mount]>> ELSE <<>>)
         \o <<[op |-> "mount", dev |-> DEV \o parts[i].disk \o Str(parts[i].partition),
               dir |-> "target", path |-> parts[i].mount]>>
         \o TargetMounts(parts, i + 1)

\* setup_mounts(template) when every command exits 0; trouble names what
\* goes wrong before the first command: mkdtemp (line 166), the image
\* missing (line 171), its extraction (line 178), or nothing ("")
setup_mounts(t, trouble) ==
    IF trouble = "mkdtemp" THEN [cmds |-> <<>>, err |-> "Failed to setup mounts for install"]
    ELSE IF trouble = "missing" THEN [cmds |-> <<>>, err |-> "Source image not found"]
    ELSE IF trouble = "xz"
    THEN [cmds |-> <<[op |-> "xz -dc"]>>, err |-> "Failed to extract source image"]
    ELSE [cmds |-> <<[op |-> "xz -dc"], [op |-> "modprobe nbd"], [op |-> "qemu-nbd -c"],
                     [op |-> "mount -o ro", dev |-> DEV_NBD0 \o <<"p", "2">>,
                      dir |-> "source", path |-> ROOT],
                     [op |-> "mount -o ro", dev |-> DEV_NBD0 \o <<"p", "1">>,
                      dir |-> "source", path |-> BOOT]>>
                  \o TargetMounts(SortedByMount(t.PartitionMountPoints), 1),
          err |-> ""]

\* update_loader(uuids, target_dir): "" or the exception it raises; uuid is
\* bound only when some entry is mounted at "/" (lines 263-266)
update_loader(list, file_ok) ==
    IF \A i \in 1..Len(list) : list[i].mount # ROOT THEN "UnboundLocalError"
    ELSE IF ~file_ok THEN "Unable to open bootloader configuration file"
    ELSE ""

\* the steps add_users takes for one user (lines 390-394, 335-365, 373-376)
UserSteps(user) ==
    <<"setup_chroot", "useradd", "teardown_chroot">>
    \o (IF user.key # None
        THEN <<"urlopen", "getpwnam", "key setup_chroot", "write key", "key teardown_chroot">>
        ELSE <<>>)
    \o (IF user.sudo # None THEN <<"sudoers">> ELSE <<>>)

RECURSIVE AllUserSteps(_, _)
AllUserSteps(users, i) ==
    IF i > Len(users) THEN <<>>
    ELSE [j \in 1..Len(UserSteps(users[i])) |->
             [user |-> users[i], step |-> UserSteps(users[i])[j]]]
         \o AllUserSteps(users, i + 1)

\* whether the root is the target tree after a step that succeeded
RootAfter(step, root) ==
    IF step \in {"setup_chroot", "key setup_chroot"} THEN TRUE
    ELSE IF step \in {"teardown_chroot", "key teardown_chroot"} THEN FALSE
    ELSE root

\* add_users(template, target_dir) when the first k steps succeed and the
\* next one raises (k the number of steps: none does): the useradd
\* commands run, the exception, and whether the root is left in the target
\* tree.  No handler of create_account or add_user_key restores the root
\* (lines 339-341, 352-365); stuck tells where a failed teardown_chroot
\* leaves it (lines 322-324).
RECURSIVE RunUserSteps(_, _, _, _, _)
RunUserSteps(steps, i, k, stuck, st) ==
    IF i > Len(steps) THEN st
    ELSE LET step == steps[i].step
             run == IF step = "useradd"
                    THEN Append(st.cmds, [op |-> "useradd", username |-> steps[i].user.username,
                                          uid |-> steps[i].user.uid])
                    ELSE st.cmds
         IN  IF i = k + 1
             THEN [cmds |-> run, err |-> step,
                   chrooted |-> IF step \in {"teardown_chroot", "key teardown_chroot"}
                                THEN stuck ELSE st.chrooted]
             ELSE RunUserSteps(steps, i + 1, k, stuck,
                     [cmds |-> run, err |-> "", chrooted |-> RootAfter(step, st.chrooted)])

add_users(users, k, stuck) ==
    RunUserSteps(AllUserSteps(users, 1), 1, k, stuck,
                 [cmds |-> <<>>, err |-> "", chrooted |-> FALSE])

\* lines 401-405: the commands of cleanup and whether each is run with
\* raise_exception as cleanup got it (the two rm are always run with the
\* default, True)
CleanupCommands(raise_exception) ==
    <<[op |-> "umount -R", dir |-> "target", raise |-> raise_exception],
      [op |-> "umount -R", dir |-> "source", raise |-> raise_exception],
      [op |-> "rm -fr", dir |-> "target", raise |-> TRUE],
      [op |-> "rm -fr", dir |-> "source", raise |-> TRUE],
      [op |-> "qemu-nbd -d", dir |-> "", raise |-> raise_exception]>>

\* cleanup(template, source_dir, target_dir, raise_exception): the commands
\* run, each with whether it exited 0 (ok[i]), up to the first that fails
\* and is run with raise_exception True
RECURSIVE RunCleanup(_, _, _)
RunCleanup(commands, ok, i) ==
    IF i > Len(commands) THEN [cmds |-> <<>>, err |-> ""]
    ELSE LET this == [op |-> commands[i].op, dir |-> commands[i].dir, status |-> ok[i]]
         IN  IF ~ok[i] /\ commands[i].raise
             THEN [cmds |-> <<this>>, err |-> "command failed"]
             ELSE LET rest == RunCleanup(commands, ok, i + 1)
                  IN  [cmds |-> <<this>> \o rest.cmds, err |-> rest.err]

cleanup(raise_exception, ok) == RunCleanup(CleanupCommands(raise_exception), ok, 1)

(***************************************************************************)
(* The templates the validation is run on.                                 *)
(***************************************************************************)
SIZE_1G == <<"1", "G">>
LOCAL_SRC == <<"l", "o", "c", "a", "l">>
REMOTE_SRC == <<"r", "e", "m", "o", "t", "e">>
FILE_URI == <<"f", "i", "l", "e", ":", "/", "/", "/", "i", ".", "x", "z">>

SeqsUpTo(S, n) == UNION {[1..k -> S] : k \in 0..n}

\* (disk, partition) pairs; sda + "11" and sda1 + "1" are the same string
Keys == {<<sda, 1>>, <<sda, 11>>, <<sda1, 1>>}

\* every pair as an EFI and as a linux partition of 1G, and the two
\* partitions of sda as linux partitions taking the rest of the disk
PLEntries ==
    {[disk |-> k[1], partition |-> k[2], size |-> SIZE_1G, type |-> ty] :
        k \in Keys, ty \in {EFI, LINUX}}
    \cup {[disk |-> sda, partition |-> n, size |-> REST, type |-> LINUX] : n \in {1, 11}}
FTEntries ==
    {[disk |-> k[1], partition |-> k[2], type |-> EXT4, options |-> None] : k \in Keys}
PMEntries ==
    {[disk |-> k[1], partition |-> k[2], mount |-> ROOT, options |-> None] : k \in Keys}

Layouts(PLs, FTs, PMs) ==
    {[ImageSourceType |-> LOCAL_SRC, ImageSourceLocation |-> FILE_URI, ParitionLayout |-> None,
      PartitionLayout |-> pl, FilesystemTypes |-> ft, PartitionMountPoints |-> pm,
      Users |-> <<>>] : pl \in PLs, ft \in FTs, pm \in PMs}

ValidateTemplates ==
    Layouts(SeqsUpTo(PLEntries, MaxParts), SeqsUpTo(FTEntries, MaxFs),
            SeqsUpTo(PMEntries, MaxMounts))

(***************************************************************************)
(* The state outside a run.                                                *)
(***************************************************************************)
NoExit == "running"
NoOutput == [ok |-> FALSE, lines |-> <<>>]
NoTemplate == [ImageSourceType |-> None, ImageSourceLocation |-> None,
               ParitionLayout |-> None, PartitionLayout |-> <<>>,
               FilesystemTypes |-> <<>>, PartitionMountPoints |-> <<>>, Users |-> <<>>]

(***************************************************************************)
(* validate_disk_template applied to every template of ValidateTemplates.  *)
(***************************************************************************)
InitValidate ==
    /\ template \in ValidateTemplates
    /\ given = template
    /\ pc = "call"
    /\ result = ""
    /\ cmds = <<>> /\ stages = <<>> /\ uuids = <<>> /\ fstab = <<>>
    /\ blkid = NoOutput /\ mounts = NoOutput /\ devs = {}
    /\ exit_code = NoExit /\ chrooted = FALSE

ValidateDisk ==
    /\ pc = "call"
    /\ result' = validate_disk_template(template)
    /\ pc' = "done"
    /\ UNCHANGED <<template, given, cmds, stages, blkid, uuids, fstab, devs, mounts, exit_code, chrooted>>

NextValidate == ValidateDisk

SpecValidate == InitValidate /\ [][NextValidate]_vars

(***************************************************************************)
(* Properties of validate_disk_template.                                   *)
(***************************************************************************)
PairOf(e) == <<e.disk, e.partition>>
PairsOf(list) == {PairOf(list[i]) : i \in 1..Len(list)}
EfiCount(pl) == Cardinality({i \in 1..Len(pl) : pl[i].type = EFI})
Raised == pc = "done" /\ result # "ok"
Accepted == pc = "done" /\ result = "ok"

\* some partition of size "rest" has a higher-indexed partition on its disk
RestNotLast(pl) ==
    \E i, j \in 1..Len(pl) :
        /\ pl[i].size = REST
        /\ pl[j].disk = pl[i].disk
        /\ pl[j].partition > pl[i].partition

\* C3: a template in which a partition of size "rest" is not the
\* highest-indexed partition of its disk is rejected.
C3_RestNotLastRaises ==
    (pc = "done" /\ RestNotLast(template.PartitionLayout)) => result # "ok"

\* a FilesystemTypes entry whose pair no PartitionLayout entry has, or a
\* PartitionMountPoints entry whose pair no FilesystemTypes entry has
DanglingPair(t) ==
    \/ \E i \in 1..Len(t.FilesystemTypes) :
          PairOf(t.FilesystemTypes[i]) \notin PairsOf(t.PartitionLayout)
    \/ \E i \in 1..Len(t.PartitionMountPoints) :
          PairOf(t.PartitionMountPoints[i]) \notin PairsOf(t.FilesystemTypes)

\* C5: a template with a FilesystemTypes or PartitionMountPoints entry whose
\* (disk, partition) pair is absent from the preceding list is rejected,
\* the pairs being compared as pairs.
C5_DanglingPairRaises ==
    (pc = "done" /\ DanglingPair(template)) => result # "ok"

\* the device names a list's entries stand for are pairwise different
DistinctDevices(list) ==
    \A i, j \in 1..Len(list) :
        i # j => DiskPart(list[i].disk, list[i].partition)
                   # DiskPart(list[j].disk, list[j].partition)

\* a template that is well-formed but for the number of its EFI partitions:
\* the three lists are there, every entry is complete and of an accepted
\* size and type, no two entries of a list stand for the same device, and
\* every pair of a list is a pair of the list before it
WellFormedButEfi(t) ==
    LET pl == t.PartitionLayout
        ft == t.FilesystemTypes
        pm == t.PartitionMountPoints
    IN  /\ pl # <<>> /\ ft # <<>> /\ pm # <<>>
        /\ \A i \in 1..Len(pl) :
              /\ pl[i].disk # None /\ pl[i].partition > 0
              /\ pl[i].type \in accepted_ptypes
              /\ \/ pl[i].size = REST
                 \/ /\ Len(pl[i].size) > 1
                    /\ LastChar(pl[i].size) \in accepted_sizes
                    /\ IsInt(ButLast(pl[i].size))
        /\ \A i \in 1..Len(ft) :
              /\ ft[i].disk # None /\ ft[i].partition > 0
              /\ ft[i].type \in accepted_fstypes
        /\ \A i \in 1..Len(pm) :
              /\ pm[i].disk # None /\ pm[i].partition > 0 /\ pm[i].mount # None
        /\ DistinctDevices(pl) /\ DistinctDevices(ft) /\ DistinctDevices(pm)
        /\ ~RestNotLast(pl)
        /\ ~DanglingPair(t)

\* C6: validate_disk_template raises for every layout with no EFI partition
\* and for every layout with two or more, whatever disks they are on, and
\* accepts a template with exactly one that is otherwise well-formed.
C6_ExactlyOneEfi ==
    pc = "done" =>
        /\ EfiCount(template.PartitionLayout) # 1 => result # "ok"
        /\ (EfiCount(template.PartitionLayout) = 1 /\ WellFormedButEfi(template))
              => result = "ok"

\* two EFI partitions on two disks, rejected
C6_Witness ==
    /\ pc = "done"
    /\ Len(template.PartitionLayout) = 2
    /\ template.PartitionLayout[1].type = EFI
    /\ template.PartitionLayout[2].type = EFI
    /\ template.PartitionLayout[1].disk # template.PartitionLayout[2].disk
    /\ template.FilesystemTypes # <<>> /\ template.PartitionMountPoints # <<>>
    /\ result = "Multiple EFI partitions defined"

(***************************************************************************)
(* create_partitions applied to every validated layout.                    *)
(***************************************************************************)
PartitionKeys == {<<sda, 2>>, <<sda, 11>>, <<sdb, 1>>}
PartitionSizes == {SIZE_1G, <<"2", "M">>, REST}
PartitionEntries ==
    {[disk |-> k[1], partition |-> k[2], size |-> sz, type |-> ty] :
        k \in PartitionKeys, sz \in PartitionSizes, ty \in {EFI, LINUX}}

\* a filesystem and a mount point for the first partition of a layout
FsFor(pl) == IF pl = <<>> THEN <<>>
             ELSE <<[disk |-> pl[1].disk, partition |-> pl[1].partition,
                     type |-> EXT4, options |-> None]>>
MountFor(pl) == IF pl = <<>> THEN <<>>
                ELSE <<[disk |-> pl[1].disk, partition |-> pl[1].partition,
                        mount |-> ROOT, options |-> None]>>

PartitionTemplates ==
    {t \in UNION {Layouts({pl}, {FsFor(pl)}, {MountFor(pl)}) :
                     pl \in SeqsUpTo(PartitionEntries, MaxParts)} :
        validate_disk_template(t) = "ok"}

InitPartitions ==
    /\ template \in PartitionTemplates
    /\ given = template
    /\ pc = "call"
    /\ result = ""
    /\ cmds = <<>> /\ stages = <<>> /\ uuids = <<>> /\ fstab = <<>>
    /\ blkid = NoOutput /\ mounts = NoOutput /\ devs = {}
    /\ exit_code = NoExit /\ chrooted = FALSE

\* create_partitions(template); run_command raises at the first command
\* that fails
CreatePartitions ==
    /\ pc = "call"
    /\ \E order \in Orders(DisksOf(template.PartitionLayout)) :
          LET run == create_partitions(template, order)
          IN  \E k \in 0..Len(run.cmds) :
                 /\ cmds' = Issued(run.cmds, k)
                 /\ result' = IF k < Len(run.cmds) THEN "command failed"
                              ELSE IF run.err # "" THEN run.err ELSE "ok"
    /\ pc' = "done"
    /\ UNCHANGED <<template, given, stages, blkid, uuids, fstab, devs, mounts, exit_code, chrooted>>

NextPartitions == CreatePartitions

SpecPartitions == InitPartitions /\ [][NextPartitions]_vars

\* the mkpart commands issued for a disk, in the order issued
MkpartsOn(disk) ==
    SelectSeq(cmds, LAMBDA c : c.op = "mkpart" /\ c.disk = disk)

\* the end offset a partition of this size has when it starts at start:
\* -1 for "rest", else start + n * multiplier with M = 1, G = 1024, T = 1024 * 1024
EndOffset(size, start) ==
    IF size = REST THEN -1
    ELSE start + IntOf(ButLast(size)) *
           (CASE LastChar(size) = "M" -> 1
              [] LastChar(size) = "G" -> 1024
              [] LastChar(size) = "T" -> 1024 * 1024)

\* C7: on each disk the partitions are created in ascending partition index,
\* the first at offset 0, each later one at the end offset of the one
\* created before it on that disk, each ending at start + n * multiplier,
\* or at -1 for the size "rest".
C7_PartitionsChainPerDisk ==
    pc = "done" =>
       \A d \in DisksOf(template.PartitionLayout) :
          LET mk == MkpartsOn(d)
          IN  \A i \in 1..Len(mk) :
                 /\ mk[i].start = IF i = 1 THEN 0 ELSE mk[i - 1].end
                 /\ mk[i].end = EndOffset(mk[i].entry.size, mk[i].start)
                 /\ i > 1 => mk[i - 1].entry.partition <= mk[i].entry.partition

(***************************************************************************)
(* get_uuids and update_fstab applied to validated templates and to        *)
(* outputs of blkid.                                                       *)
(***************************************************************************)
MaxBlkidLines == 2

NOATIME == <<"n", "o", "a", "t", "i", "m", "e">>
FstabKeys == {<<sda, 1>>, <<sda, 2>>}
FstabPLEntries ==
    {[disk |-> k[1], partition |-> k[2], size |-> SIZE_1G, type |-> ty] :
        k \in FstabKeys, ty \in {EFI, LINUX}}
    \cup {[disk |-> sda, partition |-> 2, size |-> SIZE_1G, type |-> SWAP]}
FstabFTEntries ==
    {[disk |-> k[1], partition |-> k[2], type |-> ty, options |-> None] :
        k \in FstabKeys, ty \in {EXT4, VFAT}}
FstabPMEntries ==
    {[disk |-> k[1], partition |-> k[2], mount |-> mp, options |-> op] :
        k \in FstabKeys, mp \in {ROOT, BOOT}, op \in {None, NOATIME}}

FstabTemplates ==
    {t \in Layouts(SeqsUpTo(FstabPLEntries, MaxParts), SeqsUpTo(FstabFTEntries, MaxParts),
                   SeqsUpTo(FstabPMEntries, MaxParts)) :
        validate_disk_template(t) = "ok"}

\* a line of blkid: the device path and a colon, then the attributes
Attr(key, value) == <<" ">> \o key \o <<"=", "\"">> \o value \o <<"\"">>
BlkidLine(dev, attrs) == DEV \o dev \o <<":">> \o attrs
PARTUUID == <<"P", "A", "R", "T", "U", "U", "I", "D">>
UUID_KEY == <<"U", "U", "I", "D">>
TYPE_KEY == <<"T", "Y", "P", "E">>

FstabBlkidLines ==
    {BlkidLine(sda \o <<"1">>, Attr(UUID_KEY, <<"A", "1">>) \o Attr(TYPE_KEY, VFAT)),
     BlkidLine(sda \o <<"2">>, Attr(UUID_KEY, <<"A", "2">>) \o Attr(PARTUUID, <<"P", "2">>)),
     BlkidLine(sda \o <<"2">>, Attr(PARTUUID, <<"P", "2">>)),
     BlkidLine(<<"n", "b", "d", "0", "p", "2">>, Attr(UUID_KEY, <<"N", "2">>))}

BlkidOutputs(lines, n) ==
    {NoOutput} \cup {[ok |-> TRUE, lines |-> ls] : ls \in SeqsUpTo(lines, n)}

InitFstab ==
    /\ template \in FstabTemplates
    /\ given = template
    /\ blkid \in BlkidOutputs(FstabBlkidLines, MaxBlkidLines)
    /\ pc = "get_uuids"
    /\ result = ""
    /\ cmds = <<>> /\ stages = <<>> /\ uuids = <<>> /\ fstab = <<>>
    /\ mounts = NoOutput /\ devs = {}
    /\ exit_code = NoExit /\ chrooted = FALSE

\* uuids = get_uuids(template)
GetUuids ==
    /\ pc = "get_uuids"
    /\ LET got == get_uuids(template, blkid)
       IN  /\ uuids' = got.uuids
           /\ result' = got.err
           /\ pc' = IF got.err = "" THEN "update_fstab" ELSE "raised"
    /\ UNCHANGED <<template, given, cmds, stages, blkid, fstab, devs, mounts, exit_code, chrooted>>

\* update_fstab(uuids, target_dir); the file may fail to open (line 286)
UpdateFstab ==
    /\ pc = "update_fstab"
    /\ \E opened \in BOOLEAN :
          IF opened
          THEN fstab' = update_fstab(uuids) /\ result' = "ok" /\ pc' = "done"
          ELSE fstab' = fstab /\ result' = "Failed to open etc/fstab" /\ pc' = "raised"
    /\ UNCHANGED <<template, given, cmds, stages, blkid, uuids, devs, mounts, exit_code, chrooted>>

NextFstab == GetUuids \/ UpdateFstab

SpecFstab == InitFstab /\ [][NextFstab]_vars

\* the fields of a line of the mount table: what stands between its
\* blanks and tabs, the newline at its end left out
RECURSIVE Fields(_)
Fields(line) ==
    LET blanks == {i \in 1..Len(line) : line[i] \in {" ", "\t", "\n"}}
        first == IF blanks = {} THEN Len(line) + 1
                 ELSE CHOOSE i \in blanks : \A j \in blanks : i <= j
    IN  IF line = <<>> THEN <<>>
        ELSE IF first = 1 THEN Fields(Tail(line))
        ELSE <<SubSeq(line, 1, first - 1)>> \o Fields(SubSeq(line, first + 1, Len(line)))

RW_RELATIME == <<"r", "w", ",", "r", "e", "l", "a", "t", "i", "m", "e">>

\* C8: every line of the mount table reads UUID=<uuid> <mount> <fstype>
\* <options> 0 0, the options being the partition's own when it has some
\* and rw,relatime when it has none.
C8_FstabLineForm ==
    pc = "done" =>
       /\ Len(fstab) = Len(uuids)
       /\ \A i \in 1..Len(fstab) :
             Fields(fstab[i]) =
                <<UUID_EQ \o uuids[i].uuid, uuids[i].mount, uuids[i].type,
                  IF uuids[i].options # None THEN uuids[i].options ELSE RW_RELATIME,
                  <<"0">>, <<"0">> >>

\* the UUIDs blkid reports for a device
ReportedUuids(dev) ==
    {u \in {<<"A", "1">>, <<"A", "2">>, <<"N", "2">>} :
        \E i \in 1..Len(blkid.lines) :
            /\ StartsWith(blkid.lines[i], DEV \o dev \o <<":", " ">>)
            /\ Find(blkid.lines[i], Attr(UUID_KEY, u)) # -1}

\* the filesystem kinds FilesystemTypes gives a pair
FsKinds(t, pair) ==
    {t.FilesystemTypes[i].type :
        i \in {j \in 1..Len(t.FilesystemTypes) : PairOf(t.FilesystemTypes[j]) = pair}}

\* the lines of the mount table that are lines for a mount entry: its
\* device's UUID, its mount path, its filesystem kind
LinesFor(entry) ==
    {i \in 1..Len(fstab) :
        \E u \in ReportedUuids(DiskPart(entry.disk, entry.partition)) :
        \E kind \in FsKinds(template, PairOf(entry)) :
            SubSeq(Fields(fstab[i]), 1, 3) = <<UUID_EQ \o u, entry.mount, kind>>}

\* C9: when get_uuids and update_fstab both return, the mount table holds
\* exactly one line for each entry of PartitionMountPoints and no other.
C9_OneLinePerMount ==
    pc = "done" =>
       /\ Len(fstab) = Len(template.PartitionMountPoints)
       /\ \A j \in 1..Len(template.PartitionMountPoints) :
             Cardinality(LinesFor(template.PartitionMountPoints[j])) = 1

(***************************************************************************)
(* find_target_disk applied to the devices of a machine and to outputs of  *)
(* blkid and mount.                                                        *)
(***************************************************************************)
MaxMountLines == 1

\* the sets of device paths a machine may have: a partition only with its disk
DevSets ==
    {ds \in SUBSET {DEV \o sda \o <<"2">>, DEV \o sdb, DEV \o sdb \o <<"2">>} :
        DEV \o sdb \o <<"2">> \in ds => DEV \o sdb \in ds}

DiskBlkidLines ==
    {BlkidLine(sda \o <<"1">>, Attr(UUID_KEY, INSTALLER_UUID) \o Attr(TYPE_KEY, VFAT)),
     BlkidLine(sdb \o <<"1">>, Attr(UUID_KEY, INSTALLER_UUID) \o Attr(TYPE_KEY, VFAT)),
     BlkidLine(sda \o <<"2">>, Attr(UUID_KEY, <<"A", "2">>)),
     BlkidLine(sdb \o <<"2">>, Attr(UUID_KEY, <<"B", "2">>))}

\* a line of mount: <device> on <path> type <kind> (rw)
MountLine(dev, path, kind) ==
    dev \o <<" ", "o", "n", " ">> \o path \o <<" ", "t", "y", "p", "e", " ">> \o kind
        \o <<" ", "(", "r", "w", ")">>
MountLines ==
    {MountLine(DEV \o sda \o <<"2">>, ROOT, EXT4),
     MountLine(DEV \o sdb \o <<"2">>, ROOT, EXT4),
     MountLine(DEV \o sda \o <<"1">>, BOOT, VFAT),
     MountLine(<<"p", "r", "o", "c">>, <<"/", "p", "r", "o", "c">>, <<"p", "r", "o", "c">>)}

InitDisk ==
    /\ devs \in DevSets
    /\ blkid \in BlkidOutputs(DiskBlkidLines, MaxBlkidLines)
    /\ mounts \in BlkidOutputs(MountLines, MaxMountLines)
    /\ template = NoTemplate /\ given = NoTemplate
    /\ pc = "call"
    /\ result = ""
    /\ cmds = <<>> /\ stages = <<>> /\ uuids = <<>> /\ fstab = <<>>
    /\ exit_code = NoExit /\ chrooted = FALSE

FindTargetDisk ==
    /\ pc = "call"
    /\ result' = find_target_disk(devs, blkid, mounts)
    /\ pc' = "done"
    /\ UNCHANGED <<template, given, cmds, stages, blkid, uuids, fstab, devs, mounts, exit_code, chrooted>>

NextDisk == FindTargetDisk

SpecDisk == InitDisk /\ [][NextDisk]_vars

\* blkid reports the UUID of the installer image on a device of this disk
InstallerOn(disk) ==
    \E i \in 1..Len(blkid.lines) :
        /\ StartsWith(blkid.lines[i], DEV \o disk)
        /\ Find(blkid.lines[i], <<" ">> \o install_uuid) # -1

OtherDisk(disk) == IF disk = sda THEN sdb ELSE sda

\* C10: with /dev/sda2 and /dev/sdb2 there and the UUID of the installer
\* image reported on a device of one of sda and sdb, find_target_disk
\* returns the other one, on the match in blkid's output.
C10_RegistryMatchPicksOther ==
    \A disk \in {sda, sdb} :
       ( /\ pc = "done"
         /\ {DEV \o sda \o <<"2">>, DEV \o sdb, DEV \o sdb \o <<"2">>} \subseteq devs
         /\ blkid.ok
         /\ InstallerOn(disk) /\ ~InstallerOn(OtherDisk(disk)) )
       => /\ result.err = ""
          /\ result.by = "blkid"
          /\ result.disk = OtherDisk(disk)

(***************************************************************************)
(* install_os: one run of the installer.                                   *)
(***************************************************************************)
MaxUsers == 1

\* lines 614-620 and 410-418: what install_os calls, in order
PipelineOrder ==
    <<"get_template", "validate_template", "get_source_image", "create_partitions",
      "create_filesystems", "setup_mounts", "copy_files", "get_uuids", "update_loader",
      "update_fstab", "add_users", "cleanup", "complete">>

\* the call after this one is made whether or not this one raised
AfterIgnoringRaise(stage, err) ==
    PipelineOrder[(CHOOSE i \in 1..Len(PipelineOrder) : PipelineOrder[i] = stage) + 1]

\* where the run is after a call: an exception leaves install_os for the
\* handler of line 625, else the next call is made
After(stage, err) ==
    IF err # "" THEN "raised"
    ELSE PipelineOrder[(CHOOSE i \in 1..Len(PipelineOrder) : PipelineOrder[i] = stage) + 1]

NoRaise == [stage |-> "", err |-> ""]
Outcome(stage, err) == IF err # "" THEN [stage |-> stage, err |-> err] ELSE NoRaise

ALICE == <<"a", "l", "i", "c", "e">>
KEY_URL == <<"h", "t", "t", "p", ":", "/", "/", "k">>
UserEntries ==
    <<[username |-> ALICE, uid |-> 0, key |-> None, sudo |-> None],
      [username |-> ALICE, uid |-> 7, key |-> KEY_URL, sudo |-> PASSWORD],
      [username |-> <<"b", "o", "b">>, uid |-> 7, key |-> None, sudo |-> <<"a", "l", "l">>]>>

PipelinePLEntries ==
    <<[disk |-> sda, partition |-> 1, size |-> SIZE_1G, type |-> EFI],
      [disk |-> sda, partition |-> 1, size |-> REST, type |-> LINUX],
      [disk |-> sda, partition |-> 2, size |-> REST, type |-> LINUX]>>
PipelineFTEntries ==
    <<[disk |-> sda, partition |-> 1, type |-> VFAT, options |-> None],
      [disk |-> sda, partition |-> 2, type |-> EXT4, options |-> None]>>
PipelinePMEntries ==
    <<[disk |-> sda, partition |-> 1, mount |-> BOOT, options |-> None],
      [disk |-> sda, partition |-> 2, mount |-> ROOT, options |-> NOATIME]>>

\* the entries of list at the indices S, in the order of list
RECURSIVE Pick(_, _, _)
Pick(list, S, i) ==
    IF i > Len(list) THEN <<>>
    ELSE (IF i \in S THEN <<list[i]>> ELSE <<>>) \o Pick(list, S, i + 1)

\* the lists of at most n entries of list, in the order of list
Selections(list, n) ==
    {Pick(list, S, 1) : S \in {T \in SUBSET (1..Len(list)) : Cardinality(T) <= n}}

PipelineTemplates ==
    {[t EXCEPT !.ImageSourceType = ty, !.Users = us] :
        t \in Layouts(Selections(PipelinePLEntries, MaxParts),
                      Selections(PipelineFTEntries, MaxFs),
                      Selections(PipelinePMEntries, MaxMounts)),
        ty \in {None, LOCAL_SRC, REMOTE_SRC},
        us \in Selections(UserEntries, MaxUsers)}

Init ==
    /\ given \in PipelineTemplates
    /\ template = NoTemplate
    /\ pc = "get_template"
    /\ result = NoRaise
    /\ cmds = <<>> /\ stages = <<>> /\ uuids = <<>> /\ fstab = <<>>
    /\ blkid = NoOutput /\ mounts = NoOutput /\ devs = {}
    /\ exit_code = NoExit /\ chrooted = FALSE

\* lines 614-615: the configuration file is read and the template fetched
GetTemplate ==
    /\ pc = "get_template"
    /\ \E err \in {"", "Invalid configuration file", "URLError"} :
          /\ template' = IF err = "" THEN given ELSE template
          /\ result' = Outcome("get_template", err)
          /\ pc' = After("get_template", err)
    /\ UNCHANGED <<given, cmds, stages, blkid, uuids, fstab, devs, mounts, exit_code, chrooted>>

\* what find_target_disk can return, over the devices that exist and the
\* outputs of blkid and mount
TargetDisks ==
    {find_target_disk(ex, blk, mnt) :
        ex \in DevSets, blk \in BlkidOutputs(DiskBlkidLines, MaxBlkidLines),
        mnt \in BlkidOutputs(MountLines, MaxMountLines)}

\* line 616; find_target_disk is what insert_fs_defaults reads the machine by
ValidateTemplate ==
    /\ pc = "validate_template"
    /\ \E found \in TargetDisks, fetch_ok \in BOOLEAN :
          LET v == validate_template(template, found, fetch_ok)
          IN  /\ template' = v.template
              /\ result' = Outcome("validate_template", v.err)
              /\ pc' = After("validate_template", v.err)
    /\ stages' = Append(stages, "validate_template")
    /\ UNCHANGED <<given, cmds, blkid, uuids, fstab, devs, mounts, exit_code, chrooted>>

\* lines 617-618: get_source_image always raises
GetSourceImage ==
    /\ pc = "get_source_image"
    /\ LET err == IF template.ImageSourceType = REMOTE_SRC
                  THEN "Unable to obtain remote image" ELSE ""
       IN  /\ result' = Outcome("get_source_image", err)
           /\ pc' = After("get_source_image", err)
    /\ UNCHANGED <<given, template, cmds, stages, blkid, uuids, fstab, devs, mounts,
                   exit_code, chrooted>>

\* a function that runs commands: those run when the first k exit 0, and
\* the exception raised, by run_command or by the function itself
RunOutcome(run, k) ==
    IF k < Len(run.cmds) THEN "command failed" ELSE run.err

\* line 410
DoCreatePartitions ==
    /\ pc = "create_partitions"
    /\ \E order \in Orders(DisksOf(template.PartitionLayout)) :
          LET run == create_partitions(template, order)
          IN  \E k \in 0..Len(run.cmds) :
                 /\ cmds' = cmds \o Issued(run.cmds, k)
                 /\ result' = Outcome("create_partitions", RunOutcome(run, k))
                 /\ pc' = After("create_partitions", RunOutcome(run, k))
    /\ stages' = Append(stages, "create_partitions")
    /\ UNCHANGED <<given, template, blkid, uuids, fstab, devs, mounts, exit_code, chrooted>>

\* line 411
DoCreateFilesystems ==
    /\ pc = "create_filesystems"
    /\ LET run == create_filesystems(template.FilesystemTypes, 1)
       IN  \E k \in 0..Len(run.cmds) :
              /\ cmds' = cmds \o Issued(run.cmds, k)
              /\ result' = Outcome("create_filesystems", RunOutcome(run, k))
              /\ pc' = After("create_filesystems", RunOutcome(run, k))
    /\ stages' = Append(stages, "create_filesystems")
    /\ UNCHANGED <<given, template, blkid, uuids, fstab, devs, mounts, exit_code, chrooted>>

\* line 412; the extraction is run by subprocess.call itself and raises
\* through trouble, every later command through run_command
DoSetupMounts ==
    /\ pc = "setup_mounts"
    /\ \E trouble \in {"", "mkdtemp", "missing", "xz"} :
          LET run == setup_mounts(template, trouble)
          IN  \E k \in (IF trouble = "" THEN 1 ELSE Len(run.cmds))..Len(run.cmds) :
                 /\ cmds' = cmds \o Issued(run.cmds, k)
                 /\ result' = Outcome("setup_mounts", RunOutcome(run, k))
                 /\ pc' = After("setup_mounts", RunOutcome(run, k))
    /\ stages' = Append(stages, "setup_mounts")
    /\ UNCHANGED <<given, template, blkid, uuids, fstab, devs, mounts, exit_code, chrooted>>

\* line 413: rsync, run by subprocess.call (line 200)
DoCopyFiles ==
    /\ pc = "copy_files"
    /\ \E err \in {"", "rsync failed"} :
          /\ result' = Outcome("copy_files", err)
          /\ pc' = After("copy_files", err)
    /\ cmds' = Append(cmds, [op |-> "rsync"])
    /\ stages' = Append(stages, "copy_files")
    /\ UNCHANGED <<given, template, blkid, uuids, fstab, devs, mounts, exit_code, chrooted>>

\* line 414
DoGetUuids ==
    /\ pc = "get_uuids"
    /\ \E blk \in BlkidOutputs(FstabBlkidLines, MaxBlkidLines) :
          LET got == get_uuids(template, blk)
          IN  /\ uuids' = got.uuids
              /\ result' = Outcome("get_uuids", got.err)
              /\ pc' = After("get_uuids", got.err)
    /\ stages' = Append(stages, "get_uuids")
    /\ UNCHANGED <<given, template, cmds, blkid, fstab, devs, mounts, exit_code, chrooted>>

\* line 415
DoUpdateLoader ==
    /\ pc = "update_loader"
    /\ \E file_ok \in BOOLEAN :
          /\ result' = Outcome("update_loader", update_loader(uuids, file_ok))
          /\ pc' = After("update_loader", update_loader(uuids, file_ok))
    /\ stages' = Append(stages, "update_loader")
    /\ UNCHANGED <<given, template, cmds, blkid, uuids, fstab, devs, mounts, exit_code,
                   chrooted>>

\* line 416
DoUpdateFstab ==
    /\ pc = "update_fstab"
    /\ \E err \in {"", "Failed to open etc/fstab"} :
          /\ fstab' = IF err = "" THEN update_fstab(uuids) ELSE fstab
          /\ result' = Outcome("update_fstab", err)
          /\ pc' = After("update_fstab", err)
    /\ stages' = Append(stages, "update_fstab")
    /\ UNCHANGED <<given, template, cmds, blkid, uuids, devs, mounts, exit_code, chrooted>>

\* line 417
DoAddUsers ==
    /\ pc = "add_users"
    /\ \E k \in 0..Len(AllUserSteps(template.Users, 1)), stuck \in BOOLEAN :
          LET run == add_users(template.Users, k, stuck)
          IN  /\ cmds' = cmds \o run.cmds
              /\ chrooted' = run.chrooted
              /\ result' = Outcome("add_users", run.err)
              /\ pc' = After("add_users", run.err)
    /\ stages' = Append(stages, "add_users")
    /\ UNCHANGED <<given, template, blkid, uuids, fstab, devs, mounts, exit_code>>

\* line 418: cleanup with raise_exception at its default
DoCleanup ==
    /\ pc = "cleanup"
    /\ \E ok \in [1..Len(CleanupCommands(TRUE)) -> BOOLEAN] :
          LET run == cleanup(TRUE, ok)
          IN  /\ cmds' = cmds \o run.cmds
              /\ result' = Outcome("cleanup", run.err)
              /\ pc' = After("cleanup", run.err)
    /\ stages' = Append(stages, "cleanup")
    /\ UNCHANGED <<given, template, blkid, uuids, fstab, devs, mounts, exit_code, chrooted>>

\* lines 625-627
ExitFailure ==
    /\ pc = "raised"
    /\ exit_code' = -1
    /\ pc' = "exited"
    /\ UNCHANGED <<given, template, result, cmds, stages, blkid, uuids, fstab, devs, mounts,
                   chrooted>>

\* lines 629-630
ExitSuccess ==
    /\ pc = "complete"
    /\ exit_code' = 0
    /\ pc' = "exited"
    /\ UNCHANGED <<given, template, result, cmds, stages, blkid, uuids, fstab, devs, mounts,
                   chrooted>>

Next ==
    \/ GetTemplate \/ ValidateTemplate \/ GetSourceImage
    \/ DoCreatePartitions \/ DoCreateFilesystems \/ DoSetupMounts \/ DoCopyFiles
    \/ DoGetUuids \/ DoUpdateLoader \/ DoUpdateFstab \/ DoAddUsers \/ DoCleanup
    \/ ExitFailure \/ ExitSuccess

Spec == Init /\ [][Next]_vars

(***************************************************************************)
(* Properties of a run of install_os.                                      *)
(***************************************************************************)
StageOrder ==
    <<"validate_template", "create_partitions", "create_filesystems", "setup_mounts",
      "copy_files", "get_uuids", "update_loader", "update_fstab", "add_users", "cleanup">>

IsPrefix(s, t) == Len(s) <= Len(t) /\ \A i \in 1..Len(s) : s[i] = t[i]
HasRaised == result.err # ""
Partitioning == {i \in 1..Len(cmds) : cmds[i].op \in {"mklabel", "mkpart"}}
ValidateReturned == Len(stages) >= 1 /\ result.stage # "validate_template"

C1_StagesInOrder ==
    /\ IsPrefix(stages, StageOrder)
    /\ (HasRaised /\ result.stage \in {"get_template"}) => stages = <<>>
    /\ (HasRaised /\ result.stage = "get_source_image") => stages = <<"validate_template">>
    /\ (HasRaised /\ result.stage \notin {"get_template", "get_source_image"})
          => stages # <<>> /\ stages[Len(stages)] = result.stage
    /\ Partitioning # {} => ValidateReturned
    /\ (Len(stages) = Len(StageOrder)) => (result.stage \in {"", "cleanup"})
    /\ pc = "exited" =>
          /\ exit_code \in {0, -1}
          /\ exit_code = 0 <=> (stages = StageOrder /\ ~HasRaised)
    /\ pc # "exited" => exit_code = NoExit

\* C1: the stages of a run are entered in the fixed order validate_template,
\* create_partitions, create_filesystems, setup_mounts, copy_files, get_uuids,
\* update_loader, update_fstab, add_users, cleanup; once a stage has raised no
\* stage is entered and no command is run any more, so cleanup is entered
\* only after every earlier stage returned and partitioning commands only
\* after validate_template returned; the exit code is 0 exactly when all ten
\* stages returned, and -1 otherwise.
C1_FixedOrderStopAtFirstRaise ==
    /\ []C1_StagesInOrder
    /\ [][HasRaised => (stages' = stages /\ cmds' = cmds /\ result' = result)]_vars

\* a run that stopped in the fourth stage and exited with -1, and one that
\* went through cleanup and exited with 0, are both reachable; the first is
\* the witness
C1_Witness ==
    /\ pc = "exited" /\ exit_code = -1
    /\ result.stage = "setup_mounts"
    /\ stages = SubSeq(StageOrder, 1, 4)
    /\ Partitioning # {}

HasDuplicateKey(pl) ==
    \E i, j \in 1..Len(pl) : i # j /\ PairOf(pl[i]) = PairOf(pl[j])

\* C2: when two entries of the template's PartitionLayout have the same
\* (disk, partition) key, validate_template raises, and no mklabel or mkpart
\* command is ever run.
C2_DuplicateKeyNeverPartitioned ==
    HasDuplicateKey(given.PartitionLayout) => (~ValidateReturned /\ Partitioning = {})

GivenLayoutPresent ==
    \/ given.PartitionLayout # <<>>
    \/ given.FilesystemTypes # <<>>
    \/ given.PartitionMountPoints # <<>>

\* C4: when validate_template returns for a template that has at least one
\* of PartitionLayout, FilesystemTypes, PartitionMountPoints, the template
\* passed validate_disk_template and its layout fields are the ones it was
\* given (insert_fs_defaults did not replace them); when it has none of the
\* three, the layout is the default one.
C4_LayoutValidatedNeverOverwritten ==
    ValidateReturned =>
        IF GivenLayoutPresent
        THEN /\ validate_disk_template(given) = "ok"
             /\ template.PartitionLayout = given.PartitionLayout
             /\ template.FilesystemTypes = given.FilesystemTypes
             /\ template.PartitionMountPoints = given.PartitionMountPoints
        ELSE \E found \in TargetDisks :
                found.err = "" /\ template = insert_fs_defaults(given, found.disk)

(***************************************************************************)
(* cleanup called on its own, in either mode.                              *)
(***************************************************************************)
\* the directories tempfile.mkdtemp may have returned (lines 163-164)
TempDirs == {"/tmp/a", "/tmp/b", "/tmp/c"}

\* the arguments of cleanup; the template is not read by it
CleanupCalls ==
    {c \in [raise_exception : BOOLEAN, source_dir : TempDirs, target_dir : TempDirs] :
        c.source_dir # c.target_dir}

\* lines 401-404: the directory each command is formatted with
InDirs(commands, call) ==
    [i \in 1..Len(commands) |->
        [commands[i] EXCEPT !.dir = IF @ = "target" THEN call.target_dir
                                    ELSE IF @ = "source" THEN call.source_dir ELSE @]]

InitCleanup ==
    /\ given \in CleanupCalls
    /\ template = NoTemplate
    /\ pc = "call"
    /\ result = ""
    /\ cmds = <<>> /\ stages = <<>> /\ uuids = <<>> /\ fstab = <<>>
    /\ blkid = NoOutput /\ mounts = NoOutput /\ devs = {}
    /\ exit_code = NoExit /\ chrooted = FALSE

\* cleanup(template, source_dir, target_dir, raise_exception); ok[i] tells
\* whether the i-th command exits 0
CallCleanup ==
    /\ pc = "call"
    /\ \E ok \in [1..Len(CleanupCommands(given.raise_exception)) -> BOOLEAN] :
          LET run == cleanup(given.raise_exception, ok)
          IN  /\ cmds' = InDirs(run.cmds, given)
              /\ result' = IF run.err # "" THEN run.err ELSE "ok"
    /\ pc' = "done"
    /\ UNCHANGED <<given, template, stages, blkid, uuids, fstab, devs, mounts, exit_code,
                   chrooted>>

NextCleanup == CallCleanup

SpecCleanup == InitCleanup /\ [][NextCleanup]_vars

\* C11: when cleanup is called with raise_exception False, it returns
\* without raising whichever of its commands fail, and all five commands
\* (the two umount, the two rm, the qemu-nbd detach) have been run.
C11_BestEffortNeverRaises ==
    (pc = "done" /\ ~given.raise_exception) =>
        (result = "ok" /\ Len(cmds) = Len(CleanupCommands(FALSE)))

\* C13: in either mode, an rm -fr of a directory is run only after the
\* umount -R of that same directory was run and exited 0.
C13_RemoveOnlyAfterUnmount ==
    \A i \in 1..Len(cmds) :
        cmds[i].op = "rm -fr" =>
            \E j \in 1..(i - 1) :
                cmds[j].op = "umount -R" /\ cmds[j].dir = cmds[i].dir /\ cmds[j].status

\* C12: after the user-provisioning steps, whether they returned or raised,
\* the process root is the real root, unless it is teardown_chroot itself
\* that failed.
C12_NeverLeftChrooted ==
    chrooted => result.err \in {"teardown_chroot", "key teardown_chroot"}

====
